---------------------------- MODULE Spec2Model ----------------------------
(***************************************************************************)
(* scripts/extract_sushi.py: the two-pass extraction of sushi restaurants  *)
(* from an OSM entity stream (NodeCollector, SushiExtractor), the          *)
(* classifier (is_sushi_shop, matches_prefecture), the deduplicator and    *)
(* the writing of the GeoJSON document by main.                            *)
(*                                                                         *)
(* Representation.  A Python str is the sequence of its characters; an     *)
(* ASCII character is the one-letter string, any other character is named  *)
(* by its code point ("u5bff" is U+5BFF).  A coordinate read from the      *)
(* input is an integer count of Unit-ths of a degree (Unit = 10^6); a      *)
(* number computed by a division is the exact fraction <<num, den>> in     *)
(* lowest terms (binary floating-point rounding error is not modelled).    *)
(* Optional[str] is <<>> for None and <<s>> for the string s.              *)
(***************************************************************************)
EXTENDS Integers, Sequences, FiniteSets, TLC

VARIABLES
    stream,         \* the entities of args.input, in file order
    pref_filter,    \* args.pref
    no_dedup,       \* args.no_dedup
    pc,             \* main's position
    pos,            \* entities of the current pass already handled
    node_coords,    \* NodeCollector.node_coords, shared with SushiExtractor
    features,       \* SushiExtractor.features
    geojson,        \* main's local `features` once dedup is decided
    outfile,        \* the file at args.output
    call,           \* a single call of one of the pure functions
    ret             \* its return value

vars == <<stream, pref_filter, no_dedup, pc, pos, node_coords, features,
          geojson, outfile, call, ret>>

\* ------------------------------------------------------------------ str

None == << >>
Some(s) == <<s>>

\* str.lower(), on the characters the inputs use
LowerChar(c) ==
    CASE c = "A" -> "a" [] c = "B" -> "b" [] c = "C" -> "c" [] c = "D" -> "d"
      [] c = "E" -> "e" [] c = "F" -> "f" [] c = "G" -> "g" [] c = "H" -> "h"
      [] c = "I" -> "i" [] c = "J" -> "j" [] c = "K" -> "k" [] c = "L" -> "l"
      [] c = "M" -> "m" [] c = "N" -> "n" [] c = "O" -> "o" [] c = "P" -> "p"
      [] c = "Q" -> "q" [] c = "R" -> "r" [] c = "S" -> "s" [] c = "T" -> "t"
      [] c = "U" -> "u" [] c = "V" -> "v" [] c = "W" -> "w" [] c = "X" -> "x"
      [] c = "Y" -> "y" [] c = "Z" -> "z" [] OTHER -> c

lower(s) == [k \in 1..Len(s) |-> LowerChar(s[k])]

\* needle in hay (Python's substring test; the empty needle is in every str)
In(needle, hay) ==
    \E k \in 0..(Len(hay) - Len(needle)) :
        SubSeq(hay, k + 1, k + Len(needle)) = needle

\* tags.get(key, "")
Get(tags, key) == IF key \in DOMAIN tags THEN tags[key] ELSE << >>

\* ------------------------------------------------------------ constants

PREFECTURE_MAP ==
     (<<"t", "o", "k", "y", "o">> :> <<<<"u6771", "u4eac", "u90fd">>, <<"u6771", "u4eac">>, <<"T", "o", "k", "y", "o">>>>) @@
     (<<"o", "s", "a", "k", "a">> :> <<<<"u5927", "u962a", "u5e9c">>, <<"u5927", "u962a">>, <<"O", "s", "a", "k", "a">>>>) @@
     (<<"k", "y", "o", "t", "o">> :> <<<<"u4eac", "u90fd", "u5e9c">>, <<"u4eac", "u90fd">>, <<"K", "y", "o", "t", "o">>>>) @@
     (<<"h", "o", "k", "k", "a", "i", "d", "o">> :> <<<<"u5317", "u6d77", "u9053">>, <<"H", "o", "k", "k", "a", "i", "d", "o">>>>) @@
     (<<"k", "a", "n", "a", "g", "a", "w", "a">> :> <<<<"u795e", "u5948", "u5ddd", "u770c">>, <<"u795e", "u5948", "u5ddd">>, <<"K", "a", "n", "a", "g", "a", "w", "a">>>>) @@
     (<<"a", "i", "c", "h", "i">> :> <<<<"u611b", "u77e5", "u770c">>, <<"u611b", "u77e5">>, <<"A", "i", "c", "h", "i">>>>) @@
     (<<"f", "u", "k", "u", "o", "k", "a">> :> <<<<"u798f", "u5ca1", "u770c">>, <<"u798f", "u5ca1">>, <<"F", "u", "k", "u", "o", "k", "a">>>>) @@
     (<<"h", "y", "o", "g", "o">> :> <<<<"u5175", "u5eab", "u770c">>, <<"u5175", "u5eab">>, <<"H", "y", "o", "g", "o">>>>) @@
     (<<"s", "a", "i", "t", "a", "m", "a">> :> <<<<"u57fc", "u7389", "u770c">>, <<"u57fc", "u7389">>, <<"S", "a", "i", "t", "a", "m", "a">>>>) @@
     (<<"c", "h", "i", "b", "a">> :> <<<<"u5343", "u8449", "u770c">>, <<"u5343", "u8449">>, <<"C", "h", "i", "b", "a">>>>) @@
     (<<"s", "h", "i", "z", "u", "o", "k", "a">> :> <<<<"u9759", "u5ca1", "u770c">>, <<"u9759", "u5ca1">>, <<"S", "h", "i", "z", "u", "o", "k", "a">>>>) @@
     (<<"h", "i", "r", "o", "s", "h", "i", "m", "a">> :> <<<<"u5e83", "u5cf6", "u770c">>, <<"u5e83", "u5cf6">>, <<"H", "i", "r", "o", "s", "h", "i", "m", "a">>>>) @@
     (<<"m", "i", "y", "a", "g", "i">> :> <<<<"u5bae", "u57ce", "u770c">>, <<"u5bae", "u57ce">>, <<"M", "i", "y", "a", "g", "i">>>>) @@
     (<<"n", "i", "i", "g", "a", "t", "a">> :> <<<<"u65b0", "u6f5f", "u770c">>, <<"u65b0", "u6f5f">>, <<"N", "i", "i", "g", "a", "t", "a">>>>) @@
     (<<"n", "a", "g", "a", "n", "o">> :> <<<<"u9577", "u91ce", "u770c">>, <<"u9577", "u91ce">>, <<"N", "a", "g", "a", "n", "o">>>>) @@
     (<<"o", "k", "i", "n", "a", "w", "a">> :> <<<<"u6c96", "u7e04", "u770c">>, <<"u6c96", "u7e04">>, <<"O", "k", "i", "n", "a", "w", "a">>>>) @@
     (<<"i", "b", "a", "r", "a", "k", "i">> :> <<<<"u8328", "u57ce", "u770c">>, <<"u8328", "u57ce">>, <<"I", "b", "a", "r", "a", "k", "i">>>>) @@
     (<<"t", "o", "c", "h", "i", "g", "i">> :> <<<<"u6803", "u6728", "u770c">>, <<"u6803", "u6728">>, <<"T", "o", "c", "h", "i", "g", "i">>>>) @@
     (<<"g", "u", "n", "m", "a">> :> <<<<"u7fa4", "u99ac", "u770c">>, <<"u7fa4", "u99ac">>, <<"G", "u", "n", "m", "a">>>>) @@
     (<<"n", "a", "r", "a">> :> <<<<"u5948", "u826f", "u770c">>, <<"u5948", "u826f">>, <<"N", "a", "r", "a">>>>) @@
     (<<"m", "i", "e">> :> <<<<"u4e09", "u91cd", "u770c">>, <<"u4e09", "u91cd">>, <<"M", "i", "e">>>>) @@
     (<<"g", "i", "f", "u">> :> <<<<"u5c90", "u961c", "u770c">>, <<"u5c90", "u961c">>, <<"G", "i", "f", "u">>>>) @@
     (<<"o", "k", "a", "y", "a", "m", "a">> :> <<<<"u5ca1", "u5c71", "u770c">>, <<"u5ca1", "u5c71">>, <<"O", "k", "a", "y", "a", "m", "a">>>>) @@
     (<<"k", "u", "m", "a", "m", "o", "t", "o">> :> <<<<"u718a", "u672c", "u770c">>, <<"u718a", "u672c">>, <<"K", "u", "m", "a", "m", "o", "t", "o">>>>) @@
     (<<"k", "a", "g", "o", "s", "h", "i", "m", "a">> :> <<<<"u9e7f", "u5150", "u5cf6", "u770c">>, <<"u9e7f", "u5150", "u5cf6">>, <<"K", "a", "g", "o", "s", "h", "i", "m", "a">>>>) @@
     (<<"y", "a", "m", "a", "g", "u", "c", "h", "i">> :> <<<<"u5c71", "u53e3", "u770c">>, <<"u5c71", "u53e3">>, <<"Y", "a", "m", "a", "g", "u", "c", "h", "i">>>>) @@
     (<<"n", "a", "g", "a", "s", "a", "k", "i">> :> <<<<"u9577", "u5d0e", "u770c">>, <<"u9577", "u5d0e">>, <<"N", "a", "g", "a", "s", "a", "k", "i">>>>) @@
     (<<"e", "h", "i", "m", "e">> :> <<<<"u611b", "u5a9b", "u770c">>, <<"u611b", "u5a9b">>, <<"E", "h", "i", "m", "e">>>>) @@
     (<<"a", "o", "m", "o", "r", "i">> :> <<<<"u9752", "u68ee", "u770c">>, <<"u9752", "u68ee">>, <<"A", "o", "m", "o", "r", "i">>>>) @@
     (<<"i", "w", "a", "t", "e">> :> <<<<"u5ca9", "u624b", "u770c">>, <<"u5ca9", "u624b">>, <<"I", "w", "a", "t", "e">>>>) @@
     (<<"y", "a", "m", "a", "g", "a", "t", "a">> :> <<<<"u5c71", "u5f62", "u770c">>, <<"u5c71", "u5f62">>, <<"Y", "a", "m", "a", "g", "a", "t", "a">>>>) @@
     (<<"f", "u", "k", "u", "s", "h", "i", "m", "a">> :> <<<<"u798f", "u5cf6", "u770c">>, <<"u798f", "u5cf6">>, <<"F", "u", "k", "u", "s", "h", "i", "m", "a">>>>) @@
     (<<"a", "k", "i", "t", "a">> :> <<<<"u79cb", "u7530", "u770c">>, <<"u79cb", "u7530">>, <<"A", "k", "i", "t", "a">>>>) @@
     (<<"t", "o", "y", "a", "m", "a">> :> <<<<"u5bcc", "u5c71", "u770c">>, <<"u5bcc", "u5c71">>, <<"T", "o", "y", "a", "m", "a">>>>) @@
     (<<"i", "s", "h", "i", "k", "a", "w", "a">> :> <<<<"u77f3", "u5ddd", "u770c">>, <<"u77f3", "u5ddd">>, <<"I", "s", "h", "i", "k", "a", "w", "a">>>>) @@
     (<<"f", "u", "k", "u", "i">> :> <<<<"u798f", "u4e95", "u770c">>, <<"u798f", "u4e95">>, <<"F", "u", "k", "u", "i">>>>) @@
     (<<"y", "a", "m", "a", "n", "a", "s", "h", "i">> :> <<<<"u5c71", "u68a8", "u770c">>, <<"u5c71", "u68a8">>, <<"Y", "a", "m", "a", "n", "a", "s", "h", "i">>>>) @@
     (<<"w", "a", "k", "a", "y", "a", "m", "a">> :> <<<<"u548c", "u6b4c", "u5c71", "u770c">>, <<"u548c", "u6b4c", "u5c71">>, <<"W", "a", "k", "a", "y", "a", "m", "a">>>>) @@
     (<<"t", "o", "t", "t", "o", "r", "i">> :> <<<<"u9ce5", "u53d6", "u770c">>, <<"u9ce5", "u53d6">>, <<"T", "o", "t", "t", "o", "r", "i">>>>) @@
     (<<"s", "h", "i", "m", "a", "n", "e">> :> <<<<"u5cf6", "u6839", "u770c">>, <<"u5cf6", "u6839">>, <<"S", "h", "i", "m", "a", "n", "e">>>>) @@
     (<<"t", "o", "k", "u", "s", "h", "i", "m", "a">> :> <<<<"u5fb3", "u5cf6", "u770c">>, <<"u5fb3", "u5cf6">>, <<"T", "o", "k", "u", "s", "h", "i", "m", "a">>>>) @@
     (<<"k", "a", "g", "a", "w", "a">> :> <<<<"u9999", "u5ddd", "u770c">>, <<"u9999", "u5ddd">>, <<"K", "a", "g", "a", "w", "a">>>>) @@
     (<<"k", "o", "c", "h", "i">> :> <<<<"u9ad8", "u77e5", "u770c">>, <<"u9ad8", "u77e5">>, <<"K", "o", "c", "h", "i">>>>) @@
     (<<"s", "a", "g", "a">> :> <<<<"u4f50", "u8cc0", "u770c">>, <<"u4f50", "u8cc0">>, <<"S", "a", "g", "a">>>>) @@
     (<<"o", "i", "t", "a">> :> <<<<"u5927", "u5206", "u770c">>, <<"u5927", "u5206">>, <<"O", "i", "t", "a">>>>) @@
     (<<"m", "i", "y", "a", "z", "a", "k", "i">> :> <<<<"u5bae", "u5d0e", "u770c">>, <<"u5bae", "u5d0e">>, <<"M", "i", "y", "a", "z", "a", "k", "i">>>>)

restaurant == <<"r", "e", "s", "t", "a", "u", "r", "a", "n", "t">>
fast_food == <<"f", "a", "s", "t", "_", "f", "o", "o", "d">>
seafood == <<"s", "e", "a", "f", "o", "o", "d">>
sushi == <<"s", "u", "s", "h", "i">>

\* sushi_keywords: 寿司, すし, スシ, 鮨, sushi
sushi_keywords ==
    << <<"u5bff", "u53f8">>, <<"u3059", "u3057">>, <<"u30b9", "u30b7">>,
       <<"u9ba8">>, sushi >>

\* ----------------------------------------------------------- classifier

\* a variant that compares cuisine and name as written
is_sushi_shop_nolower(tags) ==
    LET amenity == Get(tags, "amenity")
        shop == Get(tags, "shop")
        cuisine == Get(tags, "cuisine")
        name == Get(tags, "name")
        has_sushi_cuisine == In(sushi, cuisine)
        has_sushi_name ==
            \E k \in 1..Len(sushi_keywords) : In(sushi_keywords[k], name)
    IN  \/ amenity = restaurant /\ has_sushi_cuisine
        \/ amenity = restaurant /\ has_sushi_name
        \/ shop = seafood /\ has_sushi_name
        \/ amenity = fast_food /\ has_sushi_cuisine

is_sushi_shop(tags) ==
    LET amenity == Get(tags, "amenity")
        shop == Get(tags, "shop")
        cuisine == lower(Get(tags, "cuisine"))
        name == Get(tags, "name")
        has_sushi_cuisine == In(sushi, cuisine)
        has_sushi_name ==
            \E k \in 1..Len(sushi_keywords) :
                In(sushi_keywords[k], lower(name))
    IN  IF amenity = restaurant /\ has_sushi_cuisine THEN TRUE
        ELSE IF amenity = restaurant /\ has_sushi_name THEN TRUE
        ELSE IF shop = seafood /\ has_sushi_name THEN TRUE
        ELSE IF amenity = fast_food /\ has_sushi_cuisine THEN TRUE
        ELSE FALSE

\* a variant that looks the token up as given
pref_names_raw(token) ==
    IF token \in DOMAIN PREFECTURE_MAP
    THEN PREFECTURE_MAP[token]
    ELSE <<token>>

\* PREFECTURE_MAP.get(pref_filter.lower(), [pref_filter])
pref_names(token) ==
    IF lower(token) \in DOMAIN PREFECTURE_MAP
    THEN PREFECTURE_MAP[lower(token)]
    ELSE <<token>>

AnyIn(names, field) == \E k \in 1..Len(names) : In(names[k], field)

matches_prefecture(tags, filter) ==
    IF filter = None THEN TRUE
    ELSE LET names == pref_names(filter[1])
         IN  IF AnyIn(names, Get(tags, "addr:prefecture")) THEN TRUE
             ELSE IF AnyIn(names, Get(tags, "addr:full")) THEN TRUE
             ELSE IF AnyIn(names, Get(tags, "addr:city")) THEN TRUE
             ELSE FALSE

\* tags.get(a) or tags.get(b) or ... or "": the first non-empty value
FirstNonEmpty(tags, keys) ==
    IF \E k \in 1..Len(keys) : Get(tags, keys[k]) # << >>
    THEN Get(tags, keys[CHOOSE k \in 1..Len(keys) :
                     /\ Get(tags, keys[k]) # << >>
                     /\ \A j \in 1..(k - 1) : Get(tags, keys[j]) = << >>])
    ELSE << >>

extract_properties(osm_id, tags) ==
    [osm_id |-> osm_id,
     name |-> Get(tags, "name"),
     name_reading |->
        FirstNonEmpty(tags, <<"name:ja-Hira", "name:ja_kana", "name:ja_rm", "name:ja">>),
     amenity |-> Get(tags, "amenity"),
     shop |-> Get(tags, "shop"),
     cuisine |-> Get(tags, "cuisine"),
     addr_prefecture |-> Get(tags, "addr:prefecture"),
     addr_city |-> Get(tags, "addr:city"),
     addr_full |-> Get(tags, "addr:full"),
     source |-> "OSM"]

\* -------------------------------------------------------------- numbers

\* input coordinates count Unit-ths of a degree
Unit == 10^6

\* round(x, Decimals) in deduplicate_features
Decimals == 5

Abs(n) == IF n < 0 THEN -n ELSE n

RECURSIVE GCD(_, _)
GCD(a, b) == IF b = 0 THEN a ELSE GCD(b, a % b)

\* n / d for an integer n and d > 0, in lowest terms
Div(n, d) == LET g == GCD(Abs(n), d) IN <<n \div g, d \div g>>

RECURSIVE Sum(_)
Sum(s) == IF s = << >> THEN 0 ELSE Head(s) + Sum(Tail(s))

\* the integer nearest to n / d (d > 0), a tie going to the even one
RoundHalfEven(n, d) ==
    LET f == (2 * n + d) \div (2 * d)
    IN  IF (2 * n + d) % (2 * d) = 0 /\ f % 2 = 1 THEN f - 1 ELSE f

\* round(x, 5) of the fraction x, counted in 10^-5 degrees
Round(x) == RoundHalfEven(x[1], x[2] * (Unit \div 10^Decimals))

\* a variant that divides with // (floor division)
CentroidFloorDiv(coords) ==
    <<Div(Sum([k \in 1..Len(coords) |-> coords[k][1]]) \div Len(coords), 1),
      Div(Sum([k \in 1..Len(coords) |-> coords[k][2]]) \div Len(coords), 1)>>

\* sum(c[0] for c in coords) / len(coords), sum(c[1] ...) / len(coords)
Centroid(coords) ==
    <<Div(Sum([k \in 1..Len(coords) |-> coords[k][1]]), Len(coords)),
      Div(Sum([k \in 1..Len(coords) |-> coords[k][2]]), Len(coords))>>

Feature(coordinates, properties) ==
    [type |-> "Feature",
     geometry |-> [type |-> "Point", coordinates |-> coordinates],
     properties |-> properties]

\* --------------------------------------------------------- deduplicator

\* key = (round(coords[0], 5), round(coords[1], 5), name)
DedupKey(feature) ==
    <<Round(feature.geometry.coordinates[1]),
      Round(feature.geometry.coordinates[2]),
      feature.properties.name>>

RECURSIVE DedupLoop(_, _, _)
DedupLoop(rest, seen, unique_features) ==
    IF rest = << >> THEN unique_features
    ELSE LET feature == Head(rest)
             key == DedupKey(feature)
         IN  IF key \notin seen
             THEN DedupLoop(Tail(rest), seen \cup {key},
                            Append(unique_features, feature))
             ELSE DedupLoop(Tail(rest), seen, unique_features)

\* a variant that deletes from the list it is iterating over
RECURSIVE RemoveLoop(_, _, _)
RemoveLoop(list, i, seen) ==
    IF i > Len(list) THEN list
    ELSE LET key == DedupKey(list[i])
         IN  IF key \notin seen
             THEN RemoveLoop(list, i + 1, seen \cup {key})
             ELSE RemoveLoop(SubSeq(list, 1, i - 1) \o SubSeq(list, i + 1, Len(list)),
                             i + 1, seen)

deduplicate_features_inplace(list) == RemoveLoop(list, 1, {})

\* a variant that keeps the last occurrence of a key instead of the first
RECURSIVE KeepLastLoop(_)
KeepLastLoop(rest) ==
    IF rest = << >> THEN << >>
    ELSE IF \E k \in 2..Len(rest) : DedupKey(rest[k]) = DedupKey(Head(rest))
         THEN KeepLastLoop(Tail(rest))
         ELSE <<Head(rest)>> \o KeepLastLoop(Tail(rest))

deduplicate_features_keeplast(list) == KeepLastLoop(list)

deduplicate_features(list) == DedupLoop(list, {}, << >>)

\* ------------------------------------------------------------- entities

Location(lon, lat) == [valid |-> TRUE, lon |-> lon, lat |-> lat]
InvalidLocation == [valid |-> FALSE, lon |-> 0, lat |-> 0]

Node(id, location, tags) ==
    [kind |-> "node", id |-> id, location |-> location, tags |-> tags]
Way(id, tags, nodes) ==
    [kind |-> "way", id |-> id, tags |-> tags, nodes |-> nodes]
Relation(id, tags, members) ==
    [kind |-> "relation", id |-> id, tags |-> tags, members |-> members]
Member(type, ref) == [type |-> type, ref |-> ref]

\* ------------------------------------------------------- NodeCollector

\* a variant that does not test n.location.valid()
NodeCollector_node_unchecked(coords, n) ==
    (n.id :> <<n.location.lon, n.location.lat>>) @@ coords

\* NodeCollector.node: node_coords after the callback
NodeCollector_node(coords, n) ==
    IF n.location.valid
    THEN (n.id :> <<n.location.lon, n.location.lat>>) @@ coords
    ELSE coords

\* ------------------------------------------------------ SushiExtractor

\* the coordinates of the references found in node_coords, in member order
Resolve(refs, coords) ==
    LET found == SelectSeq(refs, LAMBDA r : r \in DOMAIN coords)
    IN  [k \in 1..Len(found) |-> coords[found[k]]]

\* SushiExtractor.node: the features it appends (none or one)
SushiExtractor_node(n, filter) ==
    IF ~n.location.valid THEN << >>
    ELSE IF ~is_sushi_shop(n.tags) THEN << >>
    ELSE IF ~matches_prefecture(n.tags, filter) THEN << >>
    ELSE <<Feature(<<Div(n.location.lon, 1), Div(n.location.lat, 1)>>,
                   extract_properties(<<"node", n.id>>, n.tags))>>

\* a variant without the prefecture gate
SushiExtractor_way_nofilter(w, coords, filter) ==
    IF ~is_sushi_shop(w.tags) THEN << >>
    ELSE LET cs == Resolve(w.nodes, coords)
         IN  IF cs = << >> THEN << >>
             ELSE <<Feature(Centroid(cs),
                            extract_properties(<<"way", w.id>>, w.tags))>>

\* SushiExtractor.way
SushiExtractor_way(w, coords, filter) ==
    IF ~is_sushi_shop(w.tags) THEN << >>
    ELSE IF ~matches_prefecture(w.tags, filter) THEN << >>
    ELSE LET cs == Resolve(w.nodes, coords)
         IN  IF cs = << >> THEN << >>
             ELSE <<Feature(Centroid(cs),
                            extract_properties(<<"way", w.id>>, w.tags))>>

\* a variant that looks every member up, whatever its type
SushiExtractor_relation_anytype(r, coords, filter) ==
    IF ~is_sushi_shop(r.tags) THEN << >>
    ELSE IF ~matches_prefecture(r.tags, filter) THEN << >>
    ELSE LET cs == Resolve([k \in 1..Len(r.members) |-> r.members[k].ref], coords)
         IN  IF cs = << >> THEN << >>
             ELSE <<Feature(Centroid(cs),
                            extract_properties(<<"relation", r.id>>, r.tags))>>

\* SushiExtractor.relation
SushiExtractor_relation(r, coords, filter) ==
    IF ~is_sushi_shop(r.tags) THEN << >>
    ELSE IF ~matches_prefecture(r.tags, filter) THEN << >>
    ELSE LET ns == SelectSeq(r.members, LAMBDA m : m.type = "n")
             cs == Resolve([k \in 1..Len(ns) |-> ns[k].ref], coords)
         IN  IF cs = << >> THEN << >>
             ELSE <<Feature(Centroid(cs),
                            extract_properties(<<"relation", r.id>>, r.tags))>>

\* --------------------------------------------------------------- inputs

\* longest stream of a run
MaxStream == 3

TagsPlain == << >>
\* {amenity: restaurant, cuisine: sushi, name: X, addr:prefecture: 東京都}
TagsSushiTokyo ==
    [k \in {"amenity", "cuisine", "name", "addr:prefecture"} |->
        CASE k = "amenity" -> restaurant
          [] k = "cuisine" -> sushi
          [] k = "name" -> <<"X">>
          [] k = "addr:prefecture" -> <<"u6771", "u4eac", "u90fd">>]
\* {amenity: fast_food, cuisine: Sushi, name: X, addr:city: Osaka}
TagsSushiOsaka ==
    [k \in {"amenity", "cuisine", "name", "addr:city"} |->
        CASE k = "amenity" -> fast_food
          [] k = "cuisine" -> <<"S", "u", "s", "h", "i">>
          [] k = "name" -> <<"X">>
          [] k = "addr:city" -> <<"O", "s", "a", "k", "a">>]

\* (0, 0), (2, 2) in degrees, and a point 3 and 4 millionths of a degree off
\* the origin
L0 == Location(0, 0)
L2 == Location(2 * Unit, 2 * Unit)
L3 == Location(3, 4)

EntityPool ==
    { Node(1, L0, TagsPlain),
      Node(1, L3, TagsSushiTokyo),
      Node(2, L2, TagsPlain),
      Node(2, InvalidLocation, TagsSushiTokyo),
      Way(1, TagsSushiTokyo, <<1>>),
      Way(1, TagsSushiOsaka, <<1, 3, 2>>),
      Way(2, TagsSushiTokyo, <<3>>),
      Relation(1, TagsSushiTokyo, <<Member("n", 1), Member("n", 2)>>),
      Relation(1, TagsSushiTokyo, <<Member("w", 1), Member("r", 2)>>),
      Relation(2, TagsSushiOsaka, <<Member("w", 1), Member("n", 2), Member("n", 3)>>) }

Streams == UNION {[1..n -> EntityPool] : n \in 0..MaxStream}

Filters == {None, Some(<<"t", "o", "k", "y", "o">>)}

NoFile == [exists |-> FALSE, written |-> << >>, complete |-> FALSE]
NoCall == [fn |-> "none"]
NoRet == << >>

\* ----------------------------------------------------------------- main

Init ==
    /\ stream \in Streams
    /\ pref_filter \in Filters
    /\ no_dedup \in BOOLEAN
    /\ pc = "pass1"
    /\ pos = 0
    /\ node_coords = << >>
    /\ features = << >>
    /\ geojson = << >>
    /\ outfile = NoFile
    /\ call = NoCall
    /\ ret = NoRet

\* node_collector.apply_file returns once the whole file is read
Pass1Interrupted == pos <= Len(stream)

Pass1Finished == pos = Len(stream)

\* pass 1, the reader hands a node to NodeCollector.node
CollectNode ==
    /\ pc = "pass1"
    /\ pos < Len(stream)
    /\ stream[pos + 1].kind = "node"
    /\ node_coords' = NodeCollector_node(node_coords, stream[pos + 1])
    /\ pos' = pos + 1
    /\ UNCHANGED <<stream, pref_filter, no_dedup, pc, features, geojson,
                   outfile, call, ret>>

\* pass 1, a way or a relation: NodeCollector has no callback for it
CollectSkip ==
    /\ pc = "pass1"
    /\ pos < Len(stream)
    /\ stream[pos + 1].kind # "node"
    /\ pos' = pos + 1
    /\ UNCHANGED <<stream, pref_filter, no_dedup, pc, node_coords, features,
                   geojson, outfile, call, ret>>

\* extractor = SushiExtractor(node_collector.node_coords, args.pref)
StartPass2 ==
    /\ pc = "pass1"
    /\ Pass1Finished
    /\ pc' = "pass2"
    /\ pos' = 0
    /\ features' = << >>
    /\ UNCHANGED <<stream, pref_filter, no_dedup, node_coords, geojson,
                   outfile, call, ret>>

ExtractNode ==
    /\ pc = "pass2"
    /\ pos < Len(stream)
    /\ stream[pos + 1].kind = "node"
    /\ features' = features \o SushiExtractor_node(stream[pos + 1], pref_filter)
    /\ pos' = pos + 1
    /\ UNCHANGED <<stream, pref_filter, no_dedup, pc, node_coords, geojson,
                   outfile, call, ret>>

ExtractWay ==
    /\ pc = "pass2"
    /\ pos < Len(stream)
    /\ stream[pos + 1].kind = "way"
    /\ features' = features \o
                   SushiExtractor_way(stream[pos + 1], node_coords, pref_filter)
    /\ pos' = pos + 1
    /\ UNCHANGED <<stream, pref_filter, no_dedup, pc, node_coords, geojson,
                   outfile, call, ret>>

ExtractRelation ==
    /\ pc = "pass2"
    /\ pos < Len(stream)
    /\ stream[pos + 1].kind = "relation"
    /\ features' = features \o
                   SushiExtractor_relation(stream[pos + 1], node_coords, pref_filter)
    /\ pos' = pos + 1
    /\ UNCHANGED <<stream, pref_filter, no_dedup, pc, node_coords, geojson,
                   outfile, call, ret>>

\* features = extractor.features; if not args.no_dedup: deduplicate
Deduplicate ==
    /\ pc = "pass2"
    /\ pos = Len(stream)
    /\ geojson' = IF no_dedup THEN features ELSE deduplicate_features(features)
    /\ pc' = "open"
    /\ UNCHANGED <<stream, pref_filter, no_dedup, pos, node_coords, features,
                   outfile, call, ret>>

\* open(args.output, "w"): the file is created, or truncated, and empty
Open ==
    /\ pc = "open"
    /\ outfile' = [exists |-> TRUE, written |-> << >>, complete |-> FALSE]
    /\ pc' = "dump"
    /\ UNCHANGED <<stream, pref_filter, no_dedup, pos, node_coords, features,
                   geojson, call, ret>>

\* json.dump writes the document chunk by chunk; a chunk here is one feature
WriteChunk ==
    /\ pc = "dump"
    /\ Len(outfile.written) < Len(geojson)
    /\ outfile' = [outfile EXCEPT
                     !.written = Append(@, geojson[Len(outfile.written) + 1])]
    /\ UNCHANGED <<stream, pref_filter, no_dedup, pc, pos, node_coords,
                   features, geojson, call, ret>>

\* the last chunk closes the document and the with block closes the file
Close ==
    /\ pc = "dump"
    /\ Len(outfile.written) = Len(geojson)
    /\ outfile' = [outfile EXCEPT !.complete = TRUE]
    /\ pc' = "done"
    /\ UNCHANGED <<stream, pref_filter, no_dedup, pos, node_coords, features,
                   geojson, call, ret>>

\* an exception nothing catches ends the run: the reader on a malformed
\* input, open on an unwritable destination, a write on a full disk.  The
\* with block closes the file, which keeps what was written.
Fail ==
    /\ pc \in {"pass1", "pass2", "open", "dump"}
    /\ pc' = "failed"
    /\ UNCHANGED <<stream, pref_filter, no_dedup, pos, node_coords, features,
                   geojson, outfile, call, ret>>

Next ==
    \/ CollectNode
    \/ CollectSkip
    \/ StartPass2
    \/ ExtractNode
    \/ ExtractWay
    \/ ExtractRelation
    \/ Deduplicate
    \/ Open
    \/ WriteChunk
    \/ Close

Spec == Init /\ [][Next]_vars

NextIO == Next \/ Fail

SpecIO == Init /\ [][NextIO]_vars

\* ------------------------------------------- the pure functions, called

\* longest feature list handed to deduplicate_features
MaxList == 3

\* a tag set from optional values (None: the key is absent)
TagsOf(opt) ==
    [k \in {k \in DOMAIN opt : opt[k] # None} |-> opt[k][1]]

SushiTagSets ==
    { TagsOf([k \in {"amenity", "shop", "cuisine", "name", "name:ja"} |->
                CASE k = "amenity" -> a [] k = "shop" -> s
                  [] k = "cuisine" -> c [] k = "name" -> n
                  [] k = "name:ja" -> o]) :
        a \in {None, Some(restaurant), Some(fast_food), Some(<<"c", "a", "f", "e">>),
               Some(<<"R", "e", "s", "t", "a", "u", "r", "a", "n", "t">>)},
        s \in {None, Some(seafood), Some(<<"b", "a", "k", "e", "r", "y">>)},
        c \in {None, Some(sushi), Some(<<"S", "U", "S", "H", "I">>),
               Some(<<"r", "a", "m", "e", "n", ";", "s", "u", "s", "h", "i">>),
               Some(<<"r", "a", "m", "e", "n">>)},
        n \in {None, Some(<<"u5bff", "u53f8", "u592a", "u90ce">>),
               Some(<<"u3059", "u3057">>),
               Some(<<"u30b9", "u30b7", "u30ed", "u30fc">>),
               Some(<<"u9ba8">>),
               Some(<<"S", "U", "S", "H", "I", " ", "B", "a", "r">>),
               Some(<<"c", "a", "f", "e">>),
               Some(<<"u5bff">>)},
        o \in {None, Some(<<"u3059", "u3057">>)} }

PrefTagSets ==
    { TagsOf([k \in {"addr:prefecture", "addr:full", "addr:city"} |->
                CASE k = "addr:prefecture" -> p [] k = "addr:full" -> f
                  [] k = "addr:city" -> c]) :
        p \in {None, Some(<<"u6771", "u4eac", "u90fd">>),
               Some(<<"t", "o", "k", "y", "o">>),
               Some(<<"T", "O", "K", "Y", "O">>)},
        f \in {None, Some(<<"u6771", "u4eac", "u90fd", "u65b0", "u5bbf", "u533a">>),
               Some(<<"x", "f", "o", "o", "x">>),
               Some(<<"T", "o", "k", "y", "o">>)},
        c \in {None, Some(<<"O", "s", "a", "k", "a">>),
               Some(<<"u5927", "u962a", "u5e02">>),
               Some(<<"F", "o", "o">>)} }

PrefFilters ==
    {None, Some(<<"t", "o", "k", "y", "o">>), Some(<<"T", "o", "k", "y", "o">>),
     Some(<<"T", "O", "K", "Y", "O">>), Some(<<"f", "o", "o">>), Some(<< >>),
     Some(<<"O", "s", "a", "k", "a">>), Some(<<"u6771", "u4eac">>)}

Named(name) == [k \in {"name"} |-> name]

\* features as pass 2 builds them: the first two differ by a few millionths
\* of a degree, the fourth is a centroid of two members, the last two lie
\* on either side of a rounding step
FeaturePool ==
    { Feature(<<Div(0, 1), Div(0, 1)>>, extract_properties(<<"node", 1>>, Named(<<"X">>))),
      Feature(<<Div(3, 1), Div(4, 1)>>, extract_properties(<<"way", 1>>, Named(<<"X">>))),
      Feature(<<Div(0, 1), Div(0, 1)>>, extract_properties(<<"node", 2>>, Named(<<"Y">>))),
      Feature(<<Div(2 * Unit + 3, 2), Div(2 * Unit + 4, 2)>>,
              extract_properties(<<"relation", 1>>, Named(<<"X">>))),
      Feature(<<Div(14, 1), Div(-4, 1)>>, extract_properties(<<"node", 3>>, Named(<<"X">>))),
      Feature(<<Div(16, 1), Div(-6, 1)>>, extract_properties(<<"way", 3>>, Named(<<"X">>))) }

FeatureLists == UNION {[1..n -> FeaturePool] : n \in 0..MaxList}

Calls ==
    {[fn |-> "is_sushi_shop", tags |-> t] : t \in SushiTagSets}
    \cup {[fn |-> "matches_prefecture", tags |-> t, filter |-> f] :
            t \in PrefTagSets, f \in PrefFilters}
    \cup {[fn |-> "deduplicate_features", list |-> l, again |-> FALSE] :
            l \in FeatureLists}

InitCall ==
    /\ call \in Calls
    /\ ret = NoRet
    /\ stream = << >>
    /\ pref_filter = None
    /\ no_dedup = FALSE
    /\ pc = "call"
    /\ pos = 0
    /\ node_coords = << >>
    /\ features = << >>
    /\ geojson = << >>
    /\ outfile = NoFile

Call_is_sushi_shop ==
    /\ pc = "call"
    /\ call.fn = "is_sushi_shop"
    /\ ret = NoRet
    /\ ret' = Some(is_sushi_shop(call.tags))
    /\ UNCHANGED <<stream, pref_filter, no_dedup, pc, pos, node_coords,
                   features, geojson, outfile, call>>

Call_matches_prefecture ==
    /\ pc = "call"
    /\ call.fn = "matches_prefecture"
    /\ ret = NoRet
    /\ ret' = Some(matches_prefecture(call.tags, call.filter))
    /\ UNCHANGED <<stream, pref_filter, no_dedup, pc, pos, node_coords,
                   features, geojson, outfile, call>>

Call_deduplicate_features ==
    /\ pc = "call"
    /\ call.fn = "deduplicate_features"
    /\ ret = NoRet
    /\ ret' = Some(deduplicate_features(call.list))
    /\ UNCHANGED <<stream, pref_filter, no_dedup, pc, pos, node_coords,
                   features, geojson, outfile, call>>

\* the list deduplicate_features returned is handed to it again
CallAgain ==
    /\ pc = "call"
    /\ call.fn = "deduplicate_features"
    /\ ~call.again
    /\ ret # NoRet
    /\ call' = [fn |-> "deduplicate_features", list |-> ret[1], again |-> TRUE,
                first |-> call.list]
    /\ ret' = NoRet
    /\ UNCHANGED <<stream, pref_filter, no_dedup, pc, pos, node_coords,
                   features, geojson, outfile>>

NextCall ==
    \/ Call_is_sushi_shop
    \/ Call_matches_prefecture
    \/ Call_deduplicate_features
    \/ CallAgain

SpecCall == InitCall /\ [][NextCall]_vars

\* ------------------------------------------- what the stream determines

IsComposite(e) == e.kind \in {"way", "relation"}

ValidNodeAt(k) == stream[k].kind = "node" /\ stream[k].location.valid

\* the ids of the nodes of the stream that have a valid location
ValidNodeIds == {stream[k].id : k \in {j \in 1..Len(stream) : ValidNodeAt(j)}}

\* the location of the last valid node of the stream with this id
LastValidLocation(id) ==
    LET ks == {k \in 1..Len(stream) : ValidNodeAt(k) /\ stream[k].id = id}
        last == CHOOSE k \in ks : \A j \in ks : j <= k
    IN  <<stream[last].location.lon, stream[last].location.lat>>

\* the references of a composite that name a valid node of the stream:
\* every reference of a way, the references of kind n of a relation
PointRefs(e) ==
    IF e.kind = "way" THEN e.nodes
    ELSE LET ns == SelectSeq(e.members, LAMBDA m : m.type = "n")
         IN  [k \in 1..Len(ns) |-> ns[k].ref]

ResolvedRefs(e) == SelectSeq(PointRefs(e), LAMBDA r : r \in ValidNodeIds)

Qualifies(e) ==
    is_sushi_shop(e.tags) /\ matches_prefecture(e.tags, pref_filter)

GeometryResolves(e) ==
    IF e.kind = "node" THEN e.location.valid ELSE ResolvedRefs(e) # << >>

OsmId(e) == <<e.kind, e.id>>

\* the entities pass 2 has handled so far
Handled == IF pc = "pass1" THEN 0 ELSE pos

\* x is the fraction total / n
IsQuotient(x, total, n) == x[2] > 0 /\ x[1] * n = x[2] * total

\* the coordinates are the mean of the resolved members of the composite e
IsMeanOfMembers(coordinates, e) ==
    LET refs == ResolvedRefs(e)
        at == [k \in 1..Len(refs) |-> LastValidLocation(refs[k])]
    IN  /\ IsQuotient(coordinates[1], Sum([k \in 1..Len(at) |-> at[k][1]]), Len(at))
        /\ IsQuotient(coordinates[2], Sum([k \in 1..Len(at) |-> at[k][2]]), Len(at))

\* pass 2 handles the next entity of the stream in this step
Pass2Step == pc = "pass2" /\ pos' = pos + 1

\* --------------------------------------------------------------- claims

\* C1: pass 2 starts only when pass 1 has indexed every valid node of the
\* stream, so whatever the order of the stream, every qualifying way or
\* relation that pass 2 has handled and that references a valid node of the
\* stream (before or after itself) has a Feature, at the mean of those nodes.
C1_TwoPass ==
    /\ pc # "pass1" => ValidNodeIds \subseteq DOMAIN node_coords
    /\ \A k \in 1..Handled :
          (IsComposite(stream[k]) /\ Qualifies(stream[k])
             /\ ResolvedRefs(stream[k]) # << >>)
          => \E j \in 1..Len(features) :
                /\ features[j].properties.osm_id = OsmId(stream[k])
                /\ IsMeanOfMembers(features[j].geometry.coordinates, stream[k])

\* a qualifying composite came first, the only valid node it references came
\* after it, and the run emitted its Feature
C1_Witness ==
    /\ pc = "done"
    /\ \E k \in 1..Len(stream) :
          /\ IsComposite(stream[k]) /\ Qualifies(stream[k])
          /\ ResolvedRefs(stream[k]) # << >>
          /\ \A m \in 1..k : ~ValidNodeAt(m)
          /\ \E j \in 1..Len(features) :
                features[j].properties.osm_id = OsmId(stream[k])

\* C2: the raw feature list holds, in the order of the stream, one Feature
\* for each handled entity that passes the three gates (is_sushi_shop,
\* matches_prefecture, geometry resolves), and nothing else.
C2_ThreeGates ==
    LET done == SubSeq(stream, 1, Handled)
        kept == SelectSeq(done, LAMBDA e : Qualifies(e) /\ GeometryResolves(e))
    IN  /\ Len(features) = Len(kept)
        /\ \A j \in 1..Len(kept) : features[j].properties.osm_id = OsmId(kept[j])

\* a finished pass 2 that kept some entities and dropped one at each gate or
\* another
C2_Witness ==
    /\ pc = "done"
    /\ Len(features) >= 1
    /\ \E k \in 1..Len(stream) : ~Qualifies(stream[k]) /\ GeometryResolves(stream[k])
                                 /\ is_sushi_shop(stream[k].tags)
    /\ \E k \in 1..Len(stream) : Qualifies(stream[k]) /\ ~GeometryResolves(stream[k])

C4_Centroid ==
    [][(Pass2Step /\ features' # features)
       => LET e == stream[pos + 1]
              c == features'[Len(features')].geometry.coordinates
          IN  /\ features' = Append(features, features'[Len(features')])
              /\ IF e.kind = "node"
                 THEN c = <<<<e.location.lon, 1>>, <<e.location.lat, 1>>>>
                 ELSE IsMeanOfMembers(c, e)]_vars

\* members at (0, 0) and (2, 2) gave a Feature at (1, 1), and a composite
\* with an unresolved member gave one at the mean of the resolved ones
C4_Witness ==
    /\ pc = "done"
    /\ \E j \in 1..Len(features) :
          /\ features[j].properties.osm_id[1] # "node"
          /\ features[j].geometry.coordinates = <<<<Unit, 1>>, <<Unit, 1>>>>
    /\ \E k \in 1..Len(stream) :
          /\ IsComposite(stream[k]) /\ Qualifies(stream[k])
          /\ Len(ResolvedRefs(stream[k])) \in 1..(Len(PointRefs(stream[k])) - 1)

\* C5: deduplicate_features returns the input restricted to the first
\* occurrence of each key (longitude and latitude rounded to 5 decimals, and
\* the exact name), in input order: no key twice, no key lost.  A node and a
\* way with the same name that round to the same coordinates leave the one
\* that came first.
C5_FirstOccurrences ==
    (call.fn = "deduplicate_features" /\ ~call.again /\ ret # NoRet) =>
        LET list == call.list
            out == ret[1]
            step == Unit \div 10^Decimals
            Near(x, r) == 2 * Abs(x[1] - r * x[2] * step) <= x[2] * step
            first == {i \in 1..Len(list) :
                        \A j \in 1..(i - 1) : DedupKey(list[j]) # DedupKey(list[i])}
            nth(k) == CHOOSE i \in first : Cardinality({j \in first : j < i}) = k - 1
        IN  /\ Len(out) = Cardinality(first)
            /\ \A k \in 1..Len(out) : out[k] = list[nth(k)]
            /\ \A j, k \in 1..Len(out) : j # k => DedupKey(out[j]) # DedupKey(out[k])
            /\ \A i \in 1..Len(list) :
                  \E k \in 1..Len(out) : DedupKey(out[k]) = DedupKey(list[i])
            /\ \A i \in 1..Len(list) :
                  /\ Near(list[i].geometry.coordinates[1], DedupKey(list[i])[1])
                  /\ Near(list[i].geometry.coordinates[2], DedupKey(list[i])[2])
                  /\ DedupKey(list[i])[3] = list[i].properties.name

\* a node, then a way of the same name a few millionths of a degree away,
\* then a feature of another key: the node and the third survive
C5_Witness ==
    /\ call.fn = "deduplicate_features" /\ ~call.again /\ ret # NoRet
    /\ Len(call.list) = 3
    /\ call.list[1].properties.osm_id[1] = "node"
    /\ call.list[2].properties.osm_id[1] = "way"
    /\ call.list[1].geometry.coordinates # call.list[2].geometry.coordinates
    /\ ret[1] = <<call.list[1], call.list[3]>>

\* C6: deduplicate_features applied to its own result returns that result.
C6_Idempotent ==
    (call.fn = "deduplicate_features" /\ call.again /\ ret # NoRet) =>
        ret[1] = call.list

\* the first call dropped duplicates and the second call has returned
C6_Witness ==
    /\ call.fn = "deduplicate_features" /\ call.again /\ ret # NoRet
    /\ Len(call.list) >= 2
    /\ Len(call.first) > Len(call.list)

\* C7: a run that fails, wherever it fails, leaves nothing of its own at the
\* output destination.
C7_NoPartialOutput ==
    pc = "failed" => outfile.written = << >>

\* C8: is_sushi_shop(tags) is true exactly when one of the four conditions
\* holds of amenity, shop, lower-cased cuisine and lower-cased name (a
\* missing key reading as ""), whatever other keys the tag set has; {} and
\* {amenity: restaurant} are rejected.
C8_FourConditions ==
    (call.fn = "is_sushi_shop" /\ ret # NoRet) =>
        LET V(key) == IF key \in DOMAIN call.tags THEN call.tags[key] ELSE << >>
            cuisineHit == In(sushi, lower(V("cuisine")))
            nameHit == \E kw \in {<<"u5bff", "u53f8">>, <<"u3059", "u3057">>,
                                  <<"u30b9", "u30b7">>, <<"u9ba8">>,
                                  <<"s", "u", "s", "h", "i">>} :
                          In(kw, lower(V("name")))
            only == [k \in DOMAIN call.tags \cap {"amenity", "shop", "cuisine", "name"}
                        |-> call.tags[k]]
        IN  /\ ret[1] <=> \/ V("amenity") = restaurant /\ cuisineHit
                          \/ V("amenity") = restaurant /\ nameHit
                          \/ V("shop") = seafood /\ nameHit
                          \/ V("amenity") = fast_food /\ cuisineHit
            /\ ret[1] = is_sushi_shop(only)
            /\ DOMAIN call.tags \subseteq {"amenity"} => ~ret[1]

\* a seafood shop named in capitals, with a key the rule does not read, is
\* accepted
C8_Witness ==
    /\ call.fn = "is_sushi_shop" /\ ret = Some(TRUE)
    /\ "name:ja" \in DOMAIN call.tags
    /\ Get(call.tags, "shop") = seafood
    /\ Get(call.tags, "amenity") # restaurant
    /\ Get(call.tags, "name") = <<"S", "U", "S", "H", "I", " ", "B", "a", "r">>

\* some address field contains some of the names
AddressHas(tags, names) ==
    \E key \in {"addr:prefecture", "addr:full", "addr:city"} :
        \E k \in 1..Len(names) :
            In(names[k], IF key \in DOMAIN tags THEN tags[key] ELSE << >>)

\* C9 as stated: without a filter everything matches; with one, the accepted
\* names are the table entry of the token if the token is a key of the table
\* and the token alone if not.
C9_TokenLookedUpAsGiven ==
    (call.fn = "matches_prefecture" /\ ret # NoRet) =>
        (ret[1] <=>
            \/ call.filter = None
            \/ /\ call.filter # None
               /\ AddressHas(call.tags,
                     IF call.filter[1] \in DOMAIN PREFECTURE_MAP
                     THEN PREFECTURE_MAP[call.filter[1]]
                     ELSE <<call.filter[1]>>))

\* C9 amended: the table is consulted with the lower-cased token; the
\* accepted names are the entry of the lower-cased token if that is a key of
\* the table, and the token as given, alone, if not.
C9_TokenLookedUpLowerCased ==
    (call.fn = "matches_prefecture" /\ ret # NoRet) =>
        (ret[1] <=>
            \/ call.filter = None
            \/ /\ call.filter # None
               /\ AddressHas(call.tags,
                     IF lower(call.filter[1]) \in DOMAIN PREFECTURE_MAP
                     THEN PREFECTURE_MAP[lower(call.filter[1])]
                     ELSE <<call.filter[1]>>))

\* the filter TOKYO is no key of the table, the only address field reads
\* TOKYO, and the entity does not match
C9_Witness ==
    /\ call.fn = "matches_prefecture" /\ ret = Some(FALSE)
    /\ call.filter = Some(<<"T", "O", "K", "Y", "O">>)
    /\ DOMAIN call.tags = {"addr:prefecture"}
    /\ call.tags["addr:prefecture"] = <<"T", "O", "K", "Y", "O">>

\* C10: from the end of pass 1 on, node_coords maps exactly the ids of the
\* nodes with a valid location, each to the location of its last valid
\* occurrence, and it stays so to the end of the run.
C10_IndexExactAndFrozen ==
    (pc # "pass1" \/ pos = Len(stream)) =>
        /\ DOMAIN node_coords = ValidNodeIds
        /\ \A id \in ValidNodeIds : node_coords[id] = LastValidLocation(id)

\* a finished run over a stream with a node without a valid location whose
\* id is not indexed and an id that occurs twice with different valid
\* locations
C10_Witness ==
    /\ pc = "done"
    /\ \E k \in 1..Len(stream) :
          /\ stream[k].kind = "node" /\ ~stream[k].location.valid
          /\ stream[k].id \notin DOMAIN node_coords
    /\ \E k, m \in 1..Len(stream) :
          /\ k < m /\ ValidNodeAt(k) /\ ValidNodeAt(m)
          /\ stream[k].id = stream[m].id
          /\ stream[k].location # stream[m].location
          /\ node_coords[stream[m].id] = <<stream[m].location.lon, stream[m].location.lat>>

=============================================================================
